---------------------------- MODULE Spec2Model ----------------------------
(***************************************************************************)
(* Job lifecycle and scheduling engine of the reliable event processing   *)
(* service: the intake path (app/main.py create_job), the worker loop     *)
(* (app/workers.py worker_loop, process_next_job, execute_job) and crash  *)
(* recovery (recover_stuck_jobs), over one job store.                      *)
(*                                                                         *)
(* Optional values (Python None / SQL NULL) are sets of at most one       *)
(* element: None is {} and a present value x is {x}.  Instants are        *)
(* seconds on one clock, `now`.                                            *)
(***************************************************************************)
EXTENDS Integers, Sequences, FiniteSets, TLC

VARIABLES
    jobs,          \* the job table: a sequence of rows, row i has id i
    now,           \* the wall clock
    worker,        \* where the worker process is in worker_loop
    job,           \* process_next_job's local `job` (its id), 0 when none
    retry_count,   \* worker_loop's local retry_count, kept while the retry
                   \* loop of the startup reads it and 0 otherwise
    inflight,      \* per API client, the create_job call that has passed its
                   \* lookup and has not yet committed its insert
    pool           \* per worker of a pool of concurrent workers, its position
                   \* in process_next_job and its local `job`

vars == <<jobs, now, worker, job, retry_count, inflight, pool>>

----------------------------------------------------------------------------
(* Bounds of the model *)

MaxTime == 1

Keys == {"k1", "k2"}
JobTypes == {"send_email", "test_failure", "unknown_job_type"}
Payloads == {"a", "b"}
Priorities == {1, 5}
ScheduledAtStrings == {"1970-01-01T00:00:01Z", "tomorrow", ""}
RandomDraws == {1, 5}        \* random.random() in tenths

----------------------------------------------------------------------------
(* Optional values *)

None == {}
Some(x) == {x}
The(o) == CHOOSE x \in o : TRUE

----------------------------------------------------------------------------
(* app/schemas.py *)

PENDING == "PENDING"
PROCESSING == "PROCESSING"
COMPLETED == "COMPLETED"
FAILED == "FAILED"
JobStatus == {PENDING, PROCESSING, COMPLETED, FAILED}

JobCreateRequest ==
    [type : JobTypes,
     idempotency_key : Keys,
     payload : Payloads,
     priority : Priorities,
     scheduled_at : {None} \cup {Some(s) : s \in ScheduledAtStrings}]

\* The requests the clients of the model send: every key with each of these
\* combinations of the other fields.
Profile(type, payload, priority, scheduled_at) ==
    {[type |-> type, idempotency_key |-> k, payload |-> payload,
      priority |-> priority, scheduled_at |-> scheduled_at] : k \in Keys}

Requests ==
    Profile("send_email", "a", 5, None)
    \cup Profile("test_failure", "b", 1, None)
    \cup Profile("unknown_job_type", "a", 5, Some("1970-01-01T00:00:01Z"))
    \cup Profile("send_email", "b", 1, Some("tomorrow"))

----------------------------------------------------------------------------
(* Timestamps: str.replace('Z', '+00:00'), datetime.fromisoformat and     *)
(* datetime.isoformat on the instants the model uses.                      *)

replace_Z(s) ==
    IF s = "1970-01-01T00:00:01Z" THEN "1970-01-01T00:00:01+00:00" ELSE s

\* the parsed instant, or None for ValueError
fromisoformat(s) ==
    IF s = "1970-01-01T00:00:01+00:00" THEN Some(1) ELSE None

isoformat(t) == "1970-01-01T00:00:0" \o ToString(t) \o "+00:00"

isoformat_opt(o) == IF o = None THEN None ELSE Some(isoformat(The(o)))

----------------------------------------------------------------------------
(* app/utils.py *)

build_job_response(j) ==
    [job_id |-> j.id,
     idempotency_key |-> j.idempotency_key,
     type |-> j.type,
     status |-> j.status,
     priority |-> j.priority,
     payload |-> j.payload,
     created_at |-> isoformat(j.created_at),
     updated_at |-> isoformat(j.updated_at),
     started_at |-> isoformat_opt(j.started_at),
     finished_at |-> isoformat_opt(j.finished_at),
     scheduled_at |-> isoformat_opt(j.scheduled_at),
     error_message |-> j.error_message,
     attempts |-> j.attempts,
     result |-> j.result]

----------------------------------------------------------------------------
(* The job table *)

Ids == 1..Len(jobs)

\* create_job without its lookup: no row is ever found
existing_job_never(key) == None

\* db.query(Job).filter(Job.idempotency_key == key).first()
existing_job(key) ==
    IF \E i \in Ids : jobs[i].idempotency_key = key
    THEN Some(CHOOSE i \in Ids : jobs[i].idempotency_key = key)
    ELSE None

\* the unique index on job.idempotency_key
UniqueViolation(key) == \E i \in Ids : jobs[i].idempotency_key = key

\* a row built with another ceiling of attempts
new_job_five_attempts(req, scheduled_at_datetime, current_time) ==
    [id |-> Len(jobs) + 1,
     idempotency_key |-> req.idempotency_key,
     type |-> req.type,
     payload |-> req.payload,
     status |-> PENDING,
     priority |-> req.priority,
     scheduled_at |-> scheduled_at_datetime,
     attempts |-> 0,
     max_attempts |-> 5,
     created_at |-> current_time,
     updated_at |-> current_time,
     started_at |-> None,
     finished_at |-> None,
     result |-> None,
     error_message |-> None]

\* Job(...) of create_job, with the id the store assigns on insert
new_job(req, scheduled_at_datetime, current_time) ==
    [id |-> Len(jobs) + 1,
     idempotency_key |-> req.idempotency_key,
     type |-> req.type,
     payload |-> req.payload,
     status |-> PENDING,
     priority |-> req.priority,
     scheduled_at |-> scheduled_at_datetime,
     attempts |-> 0,
     max_attempts |-> 3,
     created_at |-> current_time,
     updated_at |-> current_time,
     started_at |-> None,
     finished_at |-> None,
     result |-> None,
     error_message |-> None]

Ok(j) == [status_code |-> 200, job |-> Some(build_job_response(j))]
HTTPException(code) == [status_code |-> code, job |-> None]

----------------------------------------------------------------------------
(* app/main.py create_job *)

\* what create_job does to a request in the current state: the response it
\* returns and the job table it leaves
create_job_result(req) ==
    LET existing == existing_job(req.idempotency_key) IN
    IF existing # None
    THEN [response |-> Ok(jobs[The(existing)]), jobs |-> jobs]
    ELSE LET given == req.scheduled_at # None /\ The(req.scheduled_at) # ""
             parsed == IF given
                       THEN fromisoformat(replace_Z(The(req.scheduled_at)))
                       ELSE None
         IN  IF given /\ parsed = None
             THEN [response |-> HTTPException(400), jobs |-> jobs]
             ELSE IF UniqueViolation(req.idempotency_key)
             THEN [response |-> HTTPException(500), jobs |-> jobs]
             ELSE LET j == new_job(req, parsed, now) IN
                  [response |-> Ok(j), jobs |-> Append(jobs, j)]

create_job(req) ==
    /\ jobs' = create_job_result(req).jobs
    /\ UNCHANGED <<now, worker, job, retry_count>>
    /\ UNCHANGED <<inflight, pool>>

----------------------------------------------------------------------------
(* app/main.py create_job under concurrent requests: each request is        *)
(* handled in its own thread with its own session, and the lookup of lines  *)
(* 39-41 and the commit of line 78 are separate statements of the store.    *)

Clients == {"c1", "c2"}

\* lines 38-62: the response create_job returns before it builds a row, or
\* None with the parsed scheduled_at when it goes on to the insert
create_job_checked(req) ==
    LET existing == existing_job(req.idempotency_key)
        given == req.scheduled_at # None /\ The(req.scheduled_at) # ""
        parsed == IF given
                  THEN fromisoformat(replace_Z(The(req.scheduled_at)))
                  ELSE None
    IN  IF existing # None
        THEN [response |-> Some(Ok(jobs[The(existing)])),
              scheduled_at_datetime |-> None]
        ELSE IF given /\ parsed = None
        THEN [response |-> Some(HTTPException(400)),
              scheduled_at_datetime |-> None]
        ELSE [response |-> None, scheduled_at_datetime |-> parsed]

\* lines 38-75 of a request that finds no job with its key: the handler holds
\* the row it is going to insert
create_job_begin(c, req) ==
    /\ inflight[c] = None
    /\ create_job_checked(req).response = None
    /\ inflight' = [inflight EXCEPT ![c] =
                      Some([req |-> req,
                            scheduled_at_datetime |->
                                create_job_checked(req).scheduled_at_datetime,
                            current_time |-> now])]
    /\ UNCHANGED <<jobs, now, worker, job, retry_count, pool>>

\* lines 77-84 of the call client c has in flight: the commit inserts the row
\* or raises IntegrityError on the unique index, which nothing catches, so
\* the framework answers 500
create_job_commit_result(c) ==
    LET call == The(inflight[c]) IN
    IF UniqueViolation(call.req.idempotency_key)
    THEN [response |-> HTTPException(500), jobs |-> jobs]
    ELSE LET j == new_job(call.req, call.scheduled_at_datetime,
                          call.current_time) IN
         [response |-> Ok(j), jobs |-> Append(jobs, j)]

create_job_commit(c) ==
    /\ inflight[c] # None
    /\ jobs' = create_job_commit_result(c).jobs
    /\ inflight' = [inflight EXCEPT ![c] = None]
    /\ UNCHANGED <<now, worker, job, retry_count, pool>>

----------------------------------------------------------------------------
(* app/workers.py: the handlers.  An outcome is a returned result or a    *)
(* raised exception with its str().                                        *)

Return(result) == [raised |-> "", result |-> Some(result), str |-> ""]
Raise(exception, str) == [raised |-> exception, result |-> None, str |-> str]

handle_send_email(payload, random) ==
    IF random < 2
    THEN Raise("JobExecutionError", "Email service temporarily unavailable")
    ELSE Return([sent_to |-> payload, status |-> "sent"])

handle_process_data(payload, random) ==
    IF random < 2
    THEN Raise("JobExecutionError",
               "Process data service temporarily unavailable")
    ELSE Return([data |-> payload, status |-> "processed"])

handle_always_fail(payload) ==
    Raise("JobExecutionError",
          "This job is designed to fail. Payload: " \o payload)

\* the keys of the handlers dictionary (lines 51-55)
handlers == {"send_email", "process_data", "test_failure"}

\* a dispatch that takes a type without a handler for nothing to do
execute_job_unknown_skipped(j, random) ==
    CASE j.type = "send_email" -> handle_send_email(j.payload, random)
      [] j.type = "process_data" -> handle_process_data(j.payload, random)
      [] j.type = "test_failure" -> handle_always_fail(j.payload)
      [] OTHER -> Return([status |-> "skipped"])

execute_job(j, random) ==
    CASE j.type = "send_email" -> handle_send_email(j.payload, random)
      [] j.type = "process_data" -> handle_process_data(j.payload, random)
      [] j.type = "test_failure" -> handle_always_fail(j.payload)
      [] OTHER -> Raise("UnknownJobTypeError", "Unknown job type: " \o j.type)

----------------------------------------------------------------------------
(* app/workers.py process_next_job: the selection query *)

\* the filter with its time comparison turned round
IsEligible_flipped(j, current_time) ==
    /\ j.status = PENDING
    /\ (j.scheduled_at = None \/ The(j.scheduled_at) >= current_time)

\* the filter taking every job that is not finished
IsEligible_not_terminal(j, current_time) ==
    /\ j.status \in {PENDING, PROCESSING}
    /\ (j.scheduled_at = None \/ The(j.scheduled_at) <= current_time)

\* the filter of the query
IsEligible(j, current_time) ==
    /\ j.status = PENDING
    /\ (j.scheduled_at = None \/ The(j.scheduled_at) <= current_time)

\* the order without its second key
OrderedBefore_priority_only(a, b) == a.priority <= b.priority

\* the order with its second key descending: the newest job first
OrderedBefore_newest_first(a, b) ==
    \/ a.priority < b.priority
    \/ a.priority = b.priority /\ a.created_at >= b.created_at

\* order_by(asc(Job.priority), asc(Job.created_at)): a is not after b
OrderedBefore(a, b) ==
    \/ a.priority < b.priority
    \/ a.priority = b.priority /\ a.created_at <= b.created_at

\* the selection without its filter on the status
FirstEligible_any_status(current_time) ==
    {i \in Ids :
        /\ \A t \in jobs[i].scheduled_at : t <= current_time
        /\ \A k \in Ids : OrderedBefore(jobs[i], jobs[k])}

\* the rows .first() may return: rows equal in both keys come in either order
FirstEligible(current_time) ==
    {i \in Ids :
        /\ IsEligible(jobs[i], current_time)
        /\ \A k \in Ids : IsEligible(jobs[k], current_time)
                               => OrderedBefore(jobs[i], jobs[k])}

\* the mark without its write of the status
MarkProcessing_status_unwritten(j, t) ==
    [j EXCEPT !.started_at = Some(t), !.updated_at = t]

\* lines 120-122; the column's onupdate stamps updated_at
MarkProcessing(j, t) ==
    [j EXCEPT !.status = PROCESSING, !.started_at = Some(t), !.updated_at = t]

\* the success branch clearing the message of the earlier failures
OnSuccess_message_cleared(j, result, t) ==
    [j EXCEPT !.status = COMPLETED, !.result = result,
              !.error_message = None,
              !.finished_at = Some(t), !.updated_at = t]

\* the success branch without its stamp of finished_at
OnSuccess_unfinished(j, result, t) ==
    [j EXCEPT !.status = COMPLETED, !.result = result, !.updated_at = t]

\* lines 137-139, 172
OnSuccess(j, result, t) ==
    [j EXCEPT !.status = COMPLETED, !.result = result,
              !.finished_at = Some(t), !.updated_at = t]

\* the test of line 150 with > for >=
RetriesExhausted_late(attempts, max_attempts) == attempts > max_attempts

\* the test of line 150 one attempt early
RetriesExhausted_early(attempts, max_attempts) == attempts + 1 >= max_attempts

\* line 150
RetriesExhausted(attempts, max_attempts) == attempts >= max_attempts

\* the except branch without its count of the attempt
OnFailure_uncounted(j, str, t) ==
    [j EXCEPT !.status = PENDING,
              !.error_message = Some("Attempt " \o ToString(j.attempts)
                                     \o " failed: " \o str),
              !.updated_at = t]

\* a retry that is put off: the failed job is scheduled one second later
OnFailure_backoff(j, str, t) ==
    LET attempts == j.attempts + 1 IN
    IF RetriesExhausted(attempts, j.max_attempts)
    THEN [j EXCEPT !.attempts = attempts, !.status = FAILED,
                   !.error_message = Some(str),
                   !.finished_at = Some(t), !.updated_at = t]
    ELSE [j EXCEPT !.attempts = attempts, !.status = PENDING,
                   !.error_message =
                       Some("Attempt " \o ToString(attempts)
                            \o " failed: " \o str),
                   !.scheduled_at = Some(t + 1),
                   !.updated_at = t]

\* the except branch counting the failed attempt twice
OnFailure_counted_twice(j, str, t) ==
    LET attempts == j.attempts + 2 IN
    IF RetriesExhausted(attempts, j.max_attempts)
    THEN [j EXCEPT !.attempts = attempts, !.status = FAILED,
                   !.error_message = Some(str),
                   !.finished_at = Some(t), !.updated_at = t]
    ELSE [j EXCEPT !.attempts = attempts, !.status = PENDING,
                   !.error_message =
                       Some("Attempt " \o ToString(attempts)
                            \o " failed: " \o str),
                   !.updated_at = t]

\* lines 148-172
OnFailure(j, str, t) ==
    LET attempts == j.attempts + 1 IN
    IF RetriesExhausted(attempts, j.max_attempts)
    THEN [j EXCEPT !.attempts = attempts, !.status = FAILED,
                   !.error_message = Some(str),
                   !.finished_at = Some(t), !.updated_at = t]
    ELSE [j EXCEPT !.attempts = attempts, !.status = PENDING,
                   !.error_message =
                       Some("Attempt " \o ToString(attempts)
                            \o " failed: " \o str),
                   !.updated_at = t]

\* a selection that marks every ready job and keeps the first
SelectJob_marks_all ==
    /\ worker = "polling"
    /\ IF FirstEligible(now) = {}
       THEN /\ worker' = "sleeping"
            /\ UNCHANGED <<jobs, job>>
       ELSE \E i \in FirstEligible(now) :
            /\ jobs' = [k \in Ids |->
                          IF IsEligible(jobs[k], now)
                          THEN MarkProcessing(jobs[k], now)
                          ELSE jobs[k]]
            /\ job' = i
            /\ worker' = "executing"
    /\ UNCHANGED <<now, retry_count>>
    /\ UNCHANGED <<inflight, pool>>

\* process_next_job up to its first commit (lines 93-128): select a job and
\* mark it PROCESSING, or return when none is ready
SelectJob ==
    /\ worker = "polling"
    /\ IF FirstEligible(now) = {}
       THEN /\ worker' = "sleeping"
            /\ UNCHANGED <<jobs, job>>
       ELSE \E i \in FirstEligible(now) :
            /\ jobs' = [jobs EXCEPT ![i] = MarkProcessing(jobs[i], now)]
            /\ job' = i
            /\ worker' = "executing"
    /\ UNCHANGED <<now, retry_count>>
    /\ UNCHANGED <<inflight, pool>>

\* an except clause that takes the handlers' own failure only
Caught_execution_error_only(exception) == exception = "JobExecutionError"

\* except (JobExecutionError, UnknownJobTypeError), line 144
Caught(exception) ==
    exception \in {"JobExecutionError", "UnknownJobTypeError"}

\* process_next_job from the handler call to its last commit (lines 130-173):
\* the handler returns, or raises what the except clause takes, and the call
\* returns to the loop; an exception the clause does not take passes through
\* the finally clause's commit and ends worker_loop (lines 242-247)
ExecuteJob ==
    /\ worker = "executing"
    /\ \E random \in RandomDraws :
         LET outcome == execute_job(jobs[job], random) IN
         /\ jobs' = [jobs EXCEPT ![job] =
                       IF outcome.raised = ""
                       THEN OnSuccess(jobs[job], outcome.result, now)
                       ELSE IF Caught(outcome.raised)
                       THEN OnFailure(jobs[job], outcome.str, now)
                       ELSE [jobs[job] EXCEPT !.updated_at = now]]
         /\ worker' = IF outcome.raised = "" \/ Caught(outcome.raised)
                      THEN "sleeping" ELSE "stopped"
    /\ job' = 0
    /\ UNCHANGED <<now, retry_count>>
    /\ UNCHANGED <<inflight, pool>>

\* a finally clause that writes the interrupted job off as FAILED
Interrupt_marks_failed ==
    /\ worker = "executing"
    /\ jobs' = [jobs EXCEPT ![job].status = FAILED,
                            ![job].finished_at = Some(now),
                            ![job].updated_at = now]
    /\ job' = 0
    /\ worker' = "stopped"
    /\ UNCHANGED <<now, retry_count>>
    /\ UNCHANGED <<inflight, pool>>

\* an exception process_next_job does not catch is raised while the handler
\* runs (KeyboardInterrupt in time.sleep): the finally clause commits and the
\* loop ends (lines 171-173, 242-247)
Interrupt ==
    /\ worker = "executing"
    /\ jobs' = [jobs EXCEPT ![job].updated_at = now]
    /\ job' = 0
    /\ worker' = "stopped"
    /\ UNCHANGED <<now, retry_count>>
    /\ UNCHANGED <<inflight, pool>>

----------------------------------------------------------------------------
(* app/workers.py process_next_job run by a pool of workers, each a process *)
(* with its own session in its main loop.  The query of lines 95-104 and    *)
(* the commit of line 122 are separate statements of the store, so another  *)
(* worker's statements come between them; with one worker nothing does, and *)
(* SelectJob takes them in one step.                                         *)

Workers == {1, 2}
PoolSizes == {1, Cardinality(Workers)}

\* lines 93-104, 126-128: worker w runs the query and holds the row it got,
\* or returns when no job is ready
PoolQuery(w) ==
    /\ w \in DOMAIN pool
    /\ pool[w].pc = "polling"
    /\ IF FirstEligible(now) = {}
       THEN pool' = [pool EXCEPT ![w].pc = "sleeping"]
       ELSE \E i \in FirstEligible(now) :
                pool' = [pool EXCEPT ![w] = [pc |-> "selected", job |-> i]]
    /\ UNCHANGED <<jobs, now, worker, job, retry_count, inflight>>

\* lines 106-122: worker w marks the row it holds and commits; the UPDATE is
\* by primary key and does not test the status
PoolMark(w) ==
    /\ w \in DOMAIN pool
    /\ pool[w].pc = "selected"
    /\ jobs' = [jobs EXCEPT ![pool[w].job] =
                  MarkProcessing(jobs[pool[w].job], now)]
    /\ pool' = [pool EXCEPT ![w].pc = "executing"]
    /\ UNCHANGED <<now, worker, job, retry_count, inflight>>

\* lines 130-173: worker w runs the handler and commits the outcome
PoolExecute(w) ==
    /\ w \in DOMAIN pool
    /\ pool[w].pc = "executing"
    /\ \E random \in RandomDraws :
         LET i == pool[w].job
             outcome == execute_job(jobs[i], random)
         IN  /\ outcome.raised = "" \/ Caught(outcome.raised)
             /\ jobs' = [jobs EXCEPT ![i] =
                           IF outcome.raised = ""
                           THEN OnSuccess(jobs[i], outcome.result, now)
                           ELSE OnFailure(jobs[i], outcome.str, now)]
    /\ pool' = [pool EXCEPT ![w] = [pc |-> "sleeping", job |-> 0]]
    /\ UNCHANGED <<now, worker, job, retry_count, inflight>>

\* lines 239-240
PoolSleep(w) ==
    /\ w \in DOMAIN pool
    /\ pool[w].pc = "sleeping"
    /\ pool' = [pool EXCEPT ![w].pc = "polling"]
    /\ UNCHANGED <<jobs, now, worker, job, retry_count, inflight>>

----------------------------------------------------------------------------
(* app/workers.py recover_stuck_jobs and worker_loop *)

max_retries == 10

\* the filter taking every job that is not PENDING
IsStuck_not_pending(j) == j.status # PENDING

\* the filter of recover_stuck_jobs
IsStuck(j) == j.status = PROCESSING

\* count = len(stuck_jobs), lines 189-190
stuck_count == Cardinality({i \in Ids : IsStuck(jobs[i])})

\* what a call of recover_stuck_jobs returns: the function logs count and has
\* no return statement on either branch (lines 192-199), so the call yields
\* Python's None
recover_stuck_jobs_returns == None

\* a recovery that writes nothing
recover_stuck_jobs_nothing(t) == jobs

\* a recovery that makes the stuck jobs new again
recover_stuck_jobs_reset(t) ==
    [i \in Ids |->
        IF IsStuck(jobs[i])
        THEN [jobs[i] EXCEPT !.status = PENDING, !.started_at = None,
                             !.attempts = 0, !.updated_at = t]
        ELSE jobs[i]]

\* lines 187-199; the column's onupdate stamps updated_at
recover_stuck_jobs(t) ==
    [i \in Ids |->
        IF IsStuck(jobs[i])
        THEN [jobs[i] EXCEPT !.status = PENDING, !.updated_at = t]
        ELSE jobs[i]]

\* a start that enters the main loop without the recovery
StartWorker_skip_recovery ==
    /\ worker = "stopped"
    /\ worker' = "polling"
    /\ retry_count' = 0
    /\ UNCHANGED <<jobs, now, job>>
    /\ UNCHANGED <<inflight, pool>>

\* the process is started: worker_loop up to its retry loop (lines 202-214)
StartWorker ==
    /\ worker = "stopped"
    /\ worker' = "starting"
    /\ retry_count' = 0
    /\ UNCHANGED <<jobs, now, job>>
    /\ UNCHANGED <<inflight, pool>>

\* one pass of the retry loop in which the store answers (lines 216-221, 234)
Recover ==
    /\ worker = "starting"
    /\ jobs' = recover_stuck_jobs(now)
    /\ worker' = "polling"
    /\ retry_count' = 0
    /\ UNCHANGED <<now, job>>
    /\ UNCHANGED <<inflight, pool>>

\* a retry loop that ends without the raise and falls into the main loop
RecoverUnavailable_falls_through ==
    /\ worker = "starting"
    /\ retry_count' = retry_count + 1
    /\ worker' = IF retry_count' >= max_retries THEN "polling" ELSE "starting"
    /\ UNCHANGED <<jobs, now, job>>
    /\ UNCHANGED <<inflight, pool>>

\* one pass of the retry loop in which the store is unavailable
\* (lines 222-231)
RecoverUnavailable ==
    /\ worker = "starting"
    /\ retry_count' = retry_count + 1
    /\ worker' = IF retry_count' >= max_retries THEN "stopped" ELSE "starting"
    /\ UNCHANGED <<jobs, now, job>>
    /\ UNCHANGED <<inflight, pool>>

\* update_state_gauges and time.sleep(1) between two iterations
\* (lines 239-240)
Sleep ==
    /\ worker = "sleeping"
    /\ worker' = "polling"
    /\ UNCHANGED <<jobs, now, job, retry_count>>
    /\ UNCHANGED <<inflight, pool>>

\* the worker process dies wherever it is; nothing more is written
Crash ==
    /\ worker # "stopped"
    /\ worker' = "stopped"
    /\ job' = 0
    /\ retry_count' = 0
    /\ UNCHANGED <<jobs, now>>
    /\ UNCHANGED <<inflight, pool>>

----------------------------------------------------------------------------
Init ==
    /\ jobs = <<>>
    /\ now = 0
    /\ worker = "stopped"
    /\ job = 0
    /\ retry_count = 0
    /\ inflight = [c \in Clients |-> None]
    /\ pool = <<>>

Tick ==
    /\ now < MaxTime
    /\ now' = now + 1
    /\ UNCHANGED <<jobs, worker, job, retry_count>>
    /\ UNCHANGED <<inflight, pool>>

Next ==
    \/ \E req \in Requests : create_job(req)
    \/ Tick
    \/ StartWorker
    \/ Recover
    \/ RecoverUnavailable
    \/ SelectJob
    \/ ExecuteJob
    \/ Sleep
    \/ Interrupt
    \/ Crash

Spec == Init /\ [][Next]_vars

\* one worker that never dies: no crash, no interrupt, and the store answers
\* when it starts
NextNoCrash ==
    \/ \E req \in Requests : create_job(req)
    \/ Tick
    \/ StartWorker
    \/ Recover
    \/ SelectJob
    \/ ExecuteJob
    \/ Sleep

SpecNoCrash == Init /\ [][NextNoCrash]_vars

\* a pool of one or two workers in their main loops, and the API
InitPool ==
    /\ jobs = <<>>
    /\ now = 0
    /\ worker = "stopped"
    /\ job = 0
    /\ retry_count = 0
    /\ inflight = [c \in Clients |-> None]
    /\ pool \in {[w \in 1..n |-> [pc |-> "polling", job |-> 0]] :
                   n \in PoolSizes}

\* the submissions to the pool: jobs that are ready when they are stored, a
\* send_email job under one key and a test_failure job under the other
PoolRequests ==
    {r \in Requests :
        /\ r.scheduled_at = None
        /\ r.idempotency_key = "k1" <=> r.type = "send_email"}

NextPool ==
    \/ \E req \in PoolRequests : create_job(req)
    \/ Tick
    \/ \E w \in Workers : PoolQuery(w)
    \/ \E w \in Workers : PoolMark(w)
    \/ \E w \in Workers : PoolExecute(w)
    \/ \E w \in Workers : PoolSleep(w)

SpecPool == InitPool /\ [][NextPool]_vars

\* the API alone under concurrent requests: a request that create_job answers
\* before it builds a row (an existing key, a malformed scheduled_at) changes
\* nothing and is no step
NextIntake ==
    \/ \E c \in Clients : \E req \in Requests : create_job_begin(c, req)
    \/ \E c \in Clients : create_job_commit(c)
    \/ Tick

SpecIntake == Init /\ [][NextIntake]_vars

\* the worker process ends: it is killed, interrupted, or gives up its startup
WorkerDies == worker # "stopped" /\ worker' = "stopped"

\* the clock advances, a stopped worker is started again, a store that is
\* asked answers, and the worker loop takes its next step
Fairness ==
    /\ WF_vars(Tick)
    /\ WF_vars(StartWorker)
    /\ WF_vars(Recover)
    /\ WF_vars(SelectJob)
    /\ WF_vars(ExecuteJob)
    /\ WF_vars(Sleep)

\* the submissions of the fair specification: under each key a job that may
\* succeed or fail, or one of no known type that waits for its instant
LiveRequests ==
    {r \in Requests :
        \/ r.type = "send_email" /\ r.scheduled_at = None
        \/ r.type = "unknown_job_type"}

NextLive ==
    \/ \E req \in LiveRequests : create_job(req)
    \/ Tick
    \/ StartWorker
    \/ Recover
    \/ RecoverUnavailable
    \/ SelectJob
    \/ ExecuteJob
    \/ Sleep
    \/ Interrupt
    \/ Crash

\* one worker that dies finitely many times and is restarted each time
SpecLive ==
    Init /\ [][NextLive]_vars /\ Fairness /\ <>[][~ WorkerDies]_vars


----------------------------------------------------------------------------
(* Properties *)

Terminal(status) == status \in {COMPLETED, FAILED}

\* the eligibility predicate as the specification words it
Ready(i) ==
    /\ jobs[i].status = PENDING
    /\ \A t \in jobs[i].scheduled_at : t <= now

\* the step is the selection of process_next_job
SelectionStep == worker = "polling" /\ worker' \in {"executing", "sleeping"}

\* C1: in every state of the store, a create request whose idempotency_key
\* a stored job already has (whatever its type, payload, priority and
\* scheduled_at) is answered with that job (its job_id, its payload and
\* priority), inserts no row and leaves the store unchanged; and no two stored
\* jobs have the same idempotency_key.
C1_CreateIdempotent ==
    /\ \A i \in Ids :
          \A r \in {q \in Requests :
                       q.idempotency_key = jobs[i].idempotency_key} :
             LET res == create_job_result(r) IN
             /\ res.response.status_code = 200
             /\ res.response.job # None
             /\ The(res.response.job).job_id = jobs[i].id
             /\ The(res.response.job).payload = jobs[i].payload
             /\ The(res.response.job).priority = jobs[i].priority
             /\ res.jobs = jobs
    /\ \A i, k \in Ids :
          jobs[i].idempotency_key = jobs[k].idempotency_key => i = k

\* a job made by one request has been executed, and a request with its key
\* and another type, payload, priority and scheduled_at is answered with it
C1_Witness ==
    \E r \in Requests : \E i \in Ids :
        /\ jobs[i].idempotency_key = r.idempotency_key
        /\ jobs[i].status = FAILED
        /\ r.payload # jobs[i].payload
        /\ r.priority # jobs[i].priority
        /\ r.type # jobs[i].type
        /\ r.scheduled_at = Some("tomorrow")
        /\ create_job_result(r).response.job = Some(build_job_response(jobs[i]))

\* C2: the job a selection moves to PROCESSING is PENDING and due, has the
\* least priority value among the PENDING due jobs and the earliest created_at
\* among those of that priority; when no job is PENDING and due the selection
\* changes nothing and the loop goes on.
C2_SelectionOrder ==
    [][SelectionStep =>
        LET ready == {i \in Ids : Ready(i)} IN
        IF ready = {}
        THEN worker' = "sleeping" /\ jobs' = jobs /\ job' = 0
        ELSE /\ worker' = "executing"
             /\ job' \in ready
             /\ jobs'[job'].status = PROCESSING
             /\ \A k \in ready :
                   \/ jobs[job'].priority < jobs[k].priority
                   \/ /\ jobs[job'].priority = jobs[k].priority
                      /\ jobs[job'].created_at <= jobs[k].created_at]_vars

\* a job was selected ahead of a due job of the same priority created later,
\* or ahead of an older due job of a greater priority value
C2_Witness ==
    /\ worker = "executing"
    /\ jobs[job].started_at = Some(now)
    /\ \E k \in Ids :
          /\ jobs[k].status = PENDING
          /\ jobs[k].scheduled_at = None
          /\ \/ /\ jobs[k].priority = jobs[job].priority
                /\ jobs[k].created_at > jobs[job].created_at
             \/ /\ jobs[k].priority > jobs[job].priority
                /\ jobs[k].created_at < jobs[job].created_at

\* C3: a job whose scheduled_at is after the current instant is PENDING and
\* untouched (no attempts, started_at, result or error_message), and a
\* selection that finds nothing leaves no PENDING job whose scheduled_at has
\* been reached.
C3_ScheduledGating ==
    /\ [](\A i \in Ids : \A t \in jobs[i].scheduled_at :
            t > now => /\ jobs[i].status = PENDING
                       /\ jobs[i].attempts = 0
                       /\ jobs[i].started_at = None
                       /\ jobs[i].result = None
                       /\ jobs[i].error_message = None)
    /\ [][(SelectionStep /\ worker' = "sleeping")
            => \A i \in Ids : ~ (jobs[i].status = PENDING
                                  /\ jobs[i].scheduled_at # None
                                  /\ The(jobs[i].scheduled_at) <= now)]_vars

\* a job that waits for its instant was passed over by a selection that took
\* a job created after it and ordered after it
C3_Witness ==
    \E i, k \in Ids :
        /\ i < k
        /\ jobs[i].scheduled_at # None
        /\ The(jobs[i].scheduled_at) > now
        /\ jobs[k].started_at # None
        /\ jobs[k].priority >= jobs[i].priority

\* the step is the end of an execution: process_next_job's last commit
ExecutionStep == worker = "executing" /\ worker' = "sleeping"

\* the step is the recovery of a starting worker
RecoveryStep == worker = "starting" /\ worker' = "polling"

\* C4: with one worker that never dies, a test_failure job (max_attempts 3)
\* is selected only with attempts 0, 1 or 2, every execution of it fails and
\* adds one to attempts, it is selected again at once when no other job is
\* ready, and the third failure makes it FAILED with attempts 3, finished_at
\* set and the failure's own description as error_message; so it is selected
\* exactly three times and never a fourth.
C4_RetryExhaustion ==
    [][\A i \in Ids : jobs[i].type = "test_failure" =>
        /\ (SelectionStep /\ job' = i) => jobs[i].attempts \in 0..2
        /\ (SelectionStep /\ Ready(i) /\ \A k \in Ids \ {i} : ~ Ready(k))
              => job' = i
        /\ (ExecutionStep /\ job = i) =>
              /\ jobs'[i].attempts = jobs[i].attempts + 1
              /\ jobs'[i].status = IF jobs'[i].attempts = 3
                                   THEN FAILED ELSE PENDING
              /\ jobs'[i].status = FAILED =>
                    /\ jobs'[i].finished_at = Some(now)
                    /\ jobs'[i].error_message =
                         Some("This job is designed to fail. Payload: "
                              \o jobs[i].payload)
        /\ jobs[i].status = FAILED =>
              jobs[i].attempts = 3 /\ jobs'[i] = jobs[i]]_vars

\* a test_failure job has failed for the third time with no other job ready
C4_Witness ==
    \E i \in Ids :
        /\ jobs[i].type = "test_failure"
        /\ jobs[i].status = FAILED
        /\ jobs[i].attempts = 3
        /\ worker = "sleeping"
        /\ \A k \in Ids \ {i} : ~ Ready(k) /\ jobs[k].started_at = None

\* C5: once a job is COMPLETED or FAILED no step changes its status, result,
\* error_message or finished_at, and no selection takes it.
C5_TerminalImmutable ==
    [][\A i \in Ids : Terminal(jobs[i].status) =>
        /\ jobs'[i].status = jobs[i].status
        /\ jobs'[i].result = jobs[i].result
        /\ jobs'[i].error_message = jobs[i].error_message
        /\ jobs'[i].finished_at = jobs[i].finished_at
        /\ SelectionStep => job' # i]_vars

\* a job finished, and after that another job was selected, its worker died
\* and a recovery reset it
C5_Witness ==
    \E i, k \in Ids :
        /\ Terminal(jobs[i].status)
        /\ jobs[i].finished_at = Some(0)
        /\ jobs[k].status = PENDING
        /\ jobs[k].started_at = Some(1)
        /\ jobs[k].attempts = 0

\* C6: a stored job's status changes only from PENDING to PROCESSING by a
\* selection, from PROCESSING to COMPLETED with a result, from PROCESSING to
\* PENDING by a failed execution that leaves attempts < max_attempts or by a
\* recovery, and from PROCESSING to FAILED by a failed execution that leaves
\* attempts >= max_attempts; a job is inserted as PENDING.
C6_LegalTransitions ==
    [][/\ Len(jobs') >= Len(jobs)
       /\ \A i \in (1..Len(jobs')) \ Ids : jobs'[i].status = PENDING
       /\ \A i \in Ids : jobs'[i].status # jobs[i].status =>
            \/ /\ jobs[i].status = PENDING /\ jobs'[i].status = PROCESSING
               /\ SelectionStep /\ job' = i
            \/ /\ jobs[i].status = PROCESSING /\ jobs'[i].status = COMPLETED
               /\ ExecutionStep /\ job = i
               /\ jobs'[i].result # None
            \/ /\ jobs[i].status = PROCESSING /\ jobs'[i].status = PENDING
               /\ ExecutionStep /\ job = i
               /\ jobs'[i].attempts = jobs[i].attempts + 1
               /\ jobs'[i].attempts < jobs'[i].max_attempts
            \/ /\ jobs[i].status = PROCESSING /\ jobs'[i].status = FAILED
               /\ ExecutionStep /\ job = i
               /\ jobs'[i].attempts = jobs[i].attempts + 1
               /\ jobs'[i].attempts >= jobs'[i].max_attempts
            \/ /\ jobs[i].status = PROCESSING /\ jobs'[i].status = PENDING
               /\ RecoveryStep
               /\ jobs'[i].attempts = jobs[i].attempts]_vars

\* the transitions have happened: one job is FAILED, another COMPLETED after
\* one failed attempt
C6_Witness ==
    \E i, k \in Ids :
        /\ jobs[i].status = FAILED
        /\ jobs[k].status = COMPLETED
        /\ jobs[k].attempts = 1

\* C7 as claimed: attempts is incremented in the step that marks the job
\* PROCESSING, so a job that is PROCESSING or COMPLETED has attempts >= 1.
C7_AttemptsCountSelections ==
    \A i \in Ids :
        jobs[i].status \in {PROCESSING, COMPLETED} => jobs[i].attempts >= 1

\* C8 as claimed: a job that a recovery has reset (PENDING again after it was
\* started) keeps the increment of the interrupted attempt, so its attempts
\* is at least 1.
C8_CrashCountsAsAttempt ==
    \A i \in Ids :
        (jobs[i].status = PENDING /\ jobs[i].started_at # None)
        => jobs[i].attempts >= 1

\* C9: an execution makes a job FAILED only when it leaves attempts >=
\* max_attempts and returns it to PENDING only when it leaves attempts <
\* max_attempts; every FAILED job has attempts <= max_attempts.
C9_RetryLadder ==
    /\ [][\A i \in Ids : (ExecutionStep /\ job = i) =>
            /\ jobs'[i].status = FAILED
                  => jobs'[i].attempts >= jobs'[i].max_attempts
            /\ jobs'[i].status = PENDING
                  => jobs'[i].attempts < jobs'[i].max_attempts]_vars
    /\ [](\A i \in Ids : jobs[i].status = FAILED
                            => jobs[i].attempts <= jobs[i].max_attempts)

\* a job has gone up the ladder: a send_email job failed three times
C9_Witness ==
    \E i \in Ids :
        /\ jobs[i].status = FAILED
        /\ jobs[i].type = "send_email"
        /\ jobs[i].attempts = jobs[i].max_attempts

\* C10: right after a recovery no job is PROCESSING, and every job that was
\* PROCESSING is PENDING and satisfies the selection predicate.
C10_RecoveryPostcondition ==
    [][RecoveryStep =>
        \A i \in Ids :
            /\ jobs'[i].status # PROCESSING
            /\ jobs[i].status = PROCESSING =>
                  /\ jobs'[i].status = PENDING
                  /\ \A t \in jobs'[i].scheduled_at : t <= now']_vars

\* a recovery has just reset a job whose attempt a crash had interrupted
C10_Witness ==
    /\ worker = "polling"
    /\ \A i \in Ids : jobs[i].status # PROCESSING
    /\ \E i \in Ids :
          /\ jobs[i].status = PENDING
          /\ jobs[i].started_at # None
          /\ jobs[i].attempts = 0
          /\ jobs[i].scheduled_at # None

\* C11: a recovery changes of a job that was PROCESSING its status (and the
\* updated_at stamp the store keeps, which the claim does not list) and leaves
\* its attempts, max_attempts, priority, scheduled_at, created_at, started_at,
\* error_message, result and finished_at, like its id, key, type and payload,
\* as they were; a job that was PENDING, COMPLETED or FAILED is left entirely
\* unchanged, and no job is added or removed.
C11_RecoveryFrame ==
    [][RecoveryStep =>
        /\ Len(jobs') = Len(jobs)
        /\ \A i \in Ids :
              IF jobs[i].status = PROCESSING
              THEN /\ jobs'[i].attempts = jobs[i].attempts
                   /\ jobs'[i].max_attempts = jobs[i].max_attempts
                   /\ jobs'[i].priority = jobs[i].priority
                   /\ jobs'[i].scheduled_at = jobs[i].scheduled_at
                   /\ jobs'[i].created_at = jobs[i].created_at
                   /\ jobs'[i].started_at = jobs[i].started_at
                   /\ jobs'[i].error_message = jobs[i].error_message
                   /\ jobs'[i].result = jobs[i].result
                   /\ jobs'[i].finished_at = jobs[i].finished_at
                   /\ jobs'[i].id = jobs[i].id
                   /\ jobs'[i].idempotency_key = jobs[i].idempotency_key
                   /\ jobs'[i].type = jobs[i].type
                   /\ jobs'[i].payload = jobs[i].payload
              ELSE jobs'[i] = jobs[i]]_vars

\* a recovery has reset a job started at instant 0 whose attempt a crash had
\* interrupted, beside a job that had failed three times
C11_Witness ==
    /\ worker = "polling"
    /\ \E i, k \in Ids :
          /\ jobs[i].status = PENDING
          /\ jobs[i].started_at = Some(0)
          /\ jobs[i].attempts = 0
          /\ jobs[i].updated_at = 1
          /\ jobs[k].status = FAILED
          /\ jobs[k].attempts = 3

\* C12: the main loop is entered only from the startup and only by a recovery
\* that succeeded, the startup is entered only when the process starts, and a
\* selection is made only in the main loop; so whenever the worker is about
\* to select no job is PROCESSING, and while it executes a job no other job
\* is PROCESSING.
C12_RecoveryPrecedesLoop ==
    /\ [](worker = "polling" => \A i \in Ids : jobs[i].status # PROCESSING)
    /\ [](worker = "executing" =>
            \A i \in Ids \ {job} : jobs[i].status # PROCESSING)
    /\ [][/\ (worker = "stopped" /\ worker' # "stopped")
              => worker' = "starting"
          /\ (worker = "starting" /\ worker' \notin {"starting", "stopped"})
              => RecoveryStep /\ jobs' = recover_stuck_jobs(now)
          /\ worker' = "starting" => worker \in {"stopped", "starting"}
          /\ SelectionStep => worker = "polling"]_vars

\* the restarted worker executes a job while the job its crashed run had left
\* PROCESSING waits PENDING
C12_Witness ==
    /\ worker = "executing"
    /\ \E k \in Ids \ {job} :
          /\ jobs[k].status = PENDING
          /\ jobs[k].started_at # None
          /\ jobs[k].attempts = 0

\* C13: with one worker that dies only finitely many times and is restarted
\* each time, a clock that advances and a fair worker loop, every stored job
\* eventually is COMPLETED or FAILED, whatever the handlers' outcomes are: no
\* job stays PENDING or PROCESSING for ever.
C13_NoJobStranded ==
    \A k \in 1..Cardinality(Keys) :
        (k \in Ids) ~> (k \in Ids /\ Terminal(jobs[k].status))

\* every submitted job has finished: one that had to wait for its instant
\* and one that succeeded on its third attempt
C13_Witness ==
    /\ Len(jobs) = Cardinality(Keys)
    /\ \A i \in Ids : Terminal(jobs[i].status)
    /\ \E i, k \in Ids :
          /\ jobs[i].scheduled_at # None
          /\ jobs[k].status = COMPLETED
          /\ jobs[k].attempts = 2

\* C14 as claimed: a request that passed the lookup and then finds its key
\* stored by a concurrent request inserts no row and is answered with the
\* stored job (the winner's job_id), not with an error; and no two stored jobs
\* have the same key.
C14_LoserReturnsExisting ==
    /\ \A c \in Clients :
          (inflight[c] # None
           /\ existing_job(The(inflight[c]).req.idempotency_key) # None) =>
             LET key == The(inflight[c]).req.idempotency_key
                 res == create_job_commit_result(c)
             IN  /\ res.jobs = jobs
                 /\ res.response = Ok(jobs[The(existing_job(key))])
    /\ \A i, k \in Ids :
          jobs[i].idempotency_key = jobs[k].idempotency_key => i = k

\* the request carries a scheduled_at that is not an ISO-8601 instant; the
\* empty string, which create_job takes for no scheduled_at and stores a job
\* for, is left aside
Malformed(req) ==
    /\ req.scheduled_at # None
    /\ req.scheduled_at # Some("")
    /\ fromisoformat(replace_Z(The(req.scheduled_at))) = None

\* C15 as claimed: in every state of the store, a create request whose
\* scheduled_at is present and not ISO-8601 is rejected with the validation
\* error (400), is answered with no job, and leaves the store unchanged,
\* whatever its key and whether or not a job with that key is stored.
C15_MalformedRejected ==
    \A r \in {q \in JobCreateRequest : Malformed(q)} :
        LET res == create_job_result(r) IN
        /\ res.response.status_code = 400
        /\ res.response.job = None
        /\ res.jobs = jobs

\* the outcome of a failed execution of job j at instant t, but for the text
\* of its error_message
FailureOutcome(j, t) ==
    LET failure == execute_job([j EXCEPT !.type = "test_failure"], 1)
        after == OnFailure(j, failure.str, t)
    IN  [status |-> after.status, attempts |-> after.attempts,
         finished_at |-> after.finished_at, started_at |-> after.started_at,
         result |-> after.result, updated_at |-> after.updated_at]

\* C16: the execution of a job whose type has no handler adds one to
\* attempts, sets error_message from "Unknown job type: <type>", returns the
\* job to PENDING while attempts < max_attempts and makes it FAILED with
\* finished_at set once attempts >= max_attempts, and the call returns to the
\* loop; status, attempts and timestamps are those a failing test_failure job
\* with the same attempts and max_attempts would get.
C16_UnknownTypeLadder ==
    [][\A i \in Ids :
         (ExecuteJob /\ job = i /\ jobs[i].type \notin handlers) =>
            LET str == "Unknown job type: " \o jobs[i].type
                after == jobs'[i]
            IN  /\ after.attempts = jobs[i].attempts + 1
                /\ after.status = IF after.attempts < after.max_attempts
                                  THEN PENDING ELSE FAILED
                /\ after.status = FAILED =>
                      /\ after.finished_at = Some(now)
                      /\ after.error_message = Some(str)
                /\ after.status = PENDING =>
                      /\ after.finished_at = None
                      /\ after.error_message =
                            Some("Attempt " \o ToString(after.attempts)
                                 \o " failed: " \o str)
                /\ [status |-> after.status, attempts |-> after.attempts,
                    finished_at |-> after.finished_at,
                    started_at |-> after.started_at,
                    result |-> after.result,
                    updated_at |-> after.updated_at]
                      = FailureOutcome(jobs[i], now)
                /\ worker' = "sleeping"]_vars

\* a job of an unknown type has gone up the ladder to FAILED
C16_Witness ==
    \E i \in Ids :
        /\ jobs[i].type \notin handlers
        /\ jobs[i].status = FAILED
        /\ jobs[i].attempts = jobs[i].max_attempts
        /\ jobs[i].finished_at # None
        /\ jobs[i].error_message = Some("Unknown job type: unknown_job_type")

\* C17: an execution whose handler fails, or whose job has no handler, ends
\* with the job PENDING or FAILED and process_next_job returning to the loop,
\* which sleeps and polls again; the worker is never left between two
\* iterations with a job PROCESSING.
C17_FailuresAbsorbed ==
    /\ [][\A i \in Ids :
            (ExecuteJob /\ job = i /\ jobs'[i].status # COMPLETED) =>
               /\ jobs'[i].status \in {PENDING, FAILED}
               /\ jobs'[i].error_message # None
               /\ worker' = "sleeping"
               /\ job' = 0]_vars
    /\ [](worker = "sleeping" =>
            /\ \A i \in Ids : jobs[i].status # PROCESSING
            /\ ENABLED Sleep)

\* the loop is between two iterations after the failure of a job without a
\* handler, and a job whose handler failed three times is FAILED
C17_Witness ==
    /\ worker = "sleeping"
    /\ \E i, k \in Ids :
          /\ jobs[i].type \notin handlers
          /\ jobs[i].status = PENDING
          /\ jobs[i].error_message =
                Some("Attempt 1 failed: Unknown job type: unknown_job_type")
          /\ jobs[k].type = "send_email"
          /\ jobs[k].status = FAILED
          /\ jobs[k].error_message =
                Some("Email service temporarily unavailable")

\* C18: while the worker starts it has failed fewer than max_retries (10)
\* tries; a failed try writes nothing and ends the worker exactly when it is
\* the tenth; the worker leaves its startup for the main loop only by a try
\* that succeeded, and selects only in the main loop.
C18_StartupRetries ==
    /\ [](retry_count \in 0..max_retries)
    /\ [](worker = "starting" => retry_count < max_retries)
    /\ [](retry_count = max_retries => worker = "stopped")
    /\ [][RecoverUnavailable =>
            /\ retry_count' = retry_count + 1
            /\ jobs' = jobs
            /\ (worker' = "stopped") = (retry_count' = max_retries)
            /\ worker' \in {"starting", "stopped"}]_vars
    /\ [][(worker = "starting" /\ worker' \notin {"starting", "stopped"})
            => Recover]_vars
    /\ [][SelectionStep => worker # "starting" /\ retry_count = 0]_vars

\* the store was unavailable for ten tries: the worker has ended, and the job
\* its crashed run left PROCESSING has not been touched
C18_Witness ==
    /\ worker = "stopped"
    /\ retry_count = max_retries
    /\ \E i \in Ids : jobs[i].status = PROCESSING

\* the workers of the pool that are executing job i
Executing(i) ==
    {w \in DOMAIN pool : pool[w].pc = "executing" /\ pool[w].job = i}

\* C19: a worker's query returns a job that is PENDING at that moment, and
\* its later write of PROCESSING is not conditional on that.  A job comes to
\* be executed by two workers at once only in a pool of two, by the mark of a
\* worker that holds a row the other worker is executing.  In a pool of
\* one worker every mark finds its job still PENDING, a job is PROCESSING
\* only while that worker executes it, and no job is executed twice at once.
C19_DoubleSelection ==
    /\ [][\A w \in DOMAIN pool :
            /\ (pool[w].pc = "polling" /\ pool'[w].pc = "selected") =>
                  /\ jobs[pool'[w].job].status = PENDING
                  /\ jobs' = jobs
            /\ (pool[w].pc = "selected" /\ pool'[w].pc = "executing") =>
                  /\ jobs'[pool[w].job].status = PROCESSING
                  /\ Len(pool) = 1 => jobs[pool[w].job].status = PENDING]_vars
    /\ [][\A i \in Ids :
            (Cardinality(Executing(i)) < 2 /\ Cardinality(Executing(i))' = 2)
            => /\ Len(pool) = 2
               /\ \E w \in DOMAIN pool :
                     /\ pool[w] = [pc |-> "selected", job |-> i]
                     /\ pool'[w] = [pc |-> "executing", job |-> i]]_vars
    /\ [](Len(pool) = 1 =>
            \A i \in Ids :
                /\ Cardinality(Executing(i)) <= 1
                /\ jobs[i].status = PROCESSING <=> Executing(i) # {})

\* two workers are executing the same job
C19_Witness ==
    \E i \in Ids :
        /\ Executing(i) = {1, 2}
        /\ jobs[i].status = PROCESSING

\* the jobs that are PROCESSING
Processing == {i \in Ids : jobs[i].status = PROCESSING}

\* C20: with one worker, a selection takes a job that is PENDING and writes
\* PROCESSING in the same step, before the handler runs; the handler runs on
\* the job that is PROCESSING; the execution leaves it COMPLETED, FAILED or
\* PENDING before the loop selects again, so a selection finds no job
\* PROCESSING and returns none; and while the worker is in its main loop at
\* most one job is PROCESSING.
C20_OneJobInFlight ==
    /\ [](worker \in {"polling", "executing", "sleeping"}
            => Cardinality(Processing) <= 1)
    /\ [](worker = "executing" <=> job # 0)
    /\ [](worker = "executing" => Processing = {job})
    /\ [][SelectionStep =>
            /\ Processing = {}
            /\ worker' = "executing" =>
                  /\ jobs[job'].status = PENDING
                  /\ jobs'[job'].status = PROCESSING
                  /\ \A i \in Ids \ {job'} : jobs'[i] = jobs[i]]_vars
    /\ [][ExecutionStep =>
            /\ jobs'[job].status \in {COMPLETED, FAILED, PENDING}
            /\ Processing' = {}]_vars
    /\ [][worker' = "polling" => worker \in {"polling", "sleeping", "starting"}]_vars

\* the worker executes the one job that is PROCESSING while a job that has
\* failed once is ready and waits for the loop's next selection
C20_Witness ==
    /\ worker = "executing"
    /\ Processing = {job}
    /\ \E k \in Ids \ {job} : Ready(k) /\ jobs[k].attempts = 1

\* C21 as claimed: the value a call of recover_stuck_jobs returns is the
\* number of jobs that are PROCESSING when it is called, 0 when there are
\* none.
C21_RecoveryReturnsCount ==
    worker = "starting" => recover_stuck_jobs_returns = Some(stuck_count)

\* C22: with one worker, a job's finished_at is set exactly when its status
\* is COMPLETED or FAILED, and its result is set only when it is COMPLETED;
\* finished_at is set by the write that makes the job terminal, with the
\* instant of that write, and neither the write that returns a failed job to
\* PENDING nor a recovery sets it.
C22_FinishedAtTerminal ==
    /\ [](\A i \in Ids :
            /\ jobs[i].finished_at # None <=> Terminal(jobs[i].status)
            /\ jobs[i].result # None => jobs[i].status = COMPLETED)
    /\ [][\A i \in Ids :
            /\ (~ Terminal(jobs[i].status) /\ Terminal(jobs'[i].status)) =>
                  /\ ExecutionStep /\ job = i
                  /\ jobs[i].finished_at = None
                  /\ jobs'[i].finished_at = Some(now)
            /\ (ExecutionStep /\ job = i /\ jobs'[i].status = PENDING) =>
                  jobs'[i].finished_at = None /\ jobs'[i].result = None
            /\ RecoveryStep => jobs'[i].finished_at = jobs[i].finished_at]_vars

\* one job is COMPLETED with finished_at and result, beside a job that a
\* failed attempt has returned to PENDING and a crash and a recovery have
\* reset, with no finished_at
C22_Witness ==
    \E i, k \in Ids :
        /\ jobs[i].status = COMPLETED
        /\ jobs[i].finished_at = Some(1)
        /\ jobs[i].result # None
        /\ jobs[k].status = PENDING
        /\ jobs[k].attempts = 1
        /\ jobs[k].started_at = Some(1)
        /\ jobs[k].finished_at = None

\* C23: the write that returns a failed job to PENDING leaves its
\* scheduled_at, priority and created_at as they were and adds no delay: the
\* job satisfies the query's filter as soon as it is written, and a job that
\* waits for a retry is ready at every selection.
C23_RetryImmediate ==
    /\ [][\A i \in Ids :
            (ExecutionStep /\ job = i /\ jobs'[i].status = PENDING) =>
               /\ jobs'[i].attempts < jobs'[i].max_attempts
               /\ jobs'[i].scheduled_at = jobs[i].scheduled_at
               /\ jobs'[i].priority = jobs[i].priority
               /\ jobs'[i].created_at = jobs[i].created_at
               /\ \A t \in jobs'[i].scheduled_at : t <= now']_vars
    /\ [](\A i \in Ids :
            (jobs[i].status = PENDING /\ jobs[i].attempts >= 1) =>
               \A t \in jobs[i].scheduled_at : t <= now)

\* a job that was scheduled for instant 1 has just failed at that instant and
\* is PENDING and ready, with its scheduled_at
C23_Witness ==
    /\ worker = "sleeping"
    /\ now = 1
    /\ \E i \in Ids :
          /\ jobs[i].status = PENDING
          /\ jobs[i].attempts = 2
          /\ jobs[i].scheduled_at = Some(1)
          /\ jobs[i].updated_at = 1

\* job i waits for a retry: an attempt of it has failed and it is PENDING
Retrying(i) == jobs[i].status = PENDING /\ jobs[i].attempts >= 1

\* a has a lower priority value than b, or the same and an earlier created_at
StrictlyBefore(a, b) ==
    \/ a.priority < b.priority
    \/ a.priority = b.priority /\ a.created_at < b.created_at

\* C24 as claimed: with one worker that never dies, while job J waits for a
\* retry every selection takes a job, and it takes J unless the job it takes
\* has a strictly lower priority value than J, or the same priority and an
\* earlier created_at.
C24_HeadOfLineStrict ==
    [][\A i \in Ids : (SelectionStep /\ Retrying(i)) =>
          /\ worker' = "executing"
          /\ job' = i \/ StrictlyBefore(jobs[job'], jobs[i])]_vars

\* C24: with one worker that never dies, while job J waits for a retry every
\* selection takes a job, and it takes J unless the job it takes has a
\* strictly lower priority value than J, or the same priority and a
\* created_at that is earlier or the same (the query has no third key, so
\* the store may return either of two jobs equal in both); hence no job with
\* a higher priority value than J, or the same priority and a later
\* created_at, is selected before J is COMPLETED or FAILED.
C24_HeadOfLine ==
    [][\A i \in Ids : (SelectionStep /\ Retrying(i)) =>
          /\ worker' = "executing"
          /\ \/ job' = i
             \/ StrictlyBefore(jobs[job'], jobs[i])
             \/ /\ jobs[job'].priority = jobs[i].priority
                /\ jobs[job'].created_at = jobs[i].created_at
          /\ ~ StrictlyBefore(jobs[i], jobs[job'])]_vars

\* a job that failed twice is executed for the third time while a job of the
\* same priority and a later created_at, ready since it was stored, has never
\* been started
C24_Witness ==
    /\ worker = "executing"
    /\ jobs[job].attempts = 2
    /\ \E k \in Ids \ {job} :
          /\ jobs[k].priority = jobs[job].priority
          /\ jobs[k].created_at > jobs[job].created_at
          /\ jobs[k].created_at <= The(jobs[job].started_at)
          /\ jobs[k].scheduled_at = None
          /\ jobs[k].status = PENDING
          /\ jobs[k].started_at = None

\* C25: when the worker ends while it executes a job (an exception that the
\* except clause does not take, or a kill), the job is left PROCESSING with
\* its attempts, result, error_message and finished_at as they were before
\* the attempt's outcome, and no other job is changed; a job that is
\* PROCESSING while no worker runs stays so until the recovery of the next
\* start, which makes it PENDING.
C25_FaultNotMasked ==
    /\ [][(worker = "executing" /\ worker' = "stopped") =>
            /\ jobs'[job].status = PROCESSING
            /\ jobs'[job].attempts = jobs[job].attempts
            /\ jobs'[job].result = jobs[job].result
            /\ jobs'[job].error_message = jobs[job].error_message
            /\ jobs'[job].finished_at = jobs[job].finished_at
            /\ jobs'[job].started_at = jobs[job].started_at
            /\ \A i \in Ids \ {job} : jobs'[i] = jobs[i]]_vars
    /\ [][\A i \in Ids :
            (jobs[i].status = PROCESSING /\ worker \in {"stopped", "starting"})
            => \/ /\ jobs'[i].status = PROCESSING
                  /\ jobs'[i].attempts = jobs[i].attempts
               \/ /\ RecoveryStep
                  /\ jobs'[i].status = PENDING]_vars
    /\ [](worker = "stopped" => job = 0)

\* an exception has ended the worker during the second attempt of a job: the
\* finally clause has stamped the row an instant after the attempt started,
\* and the job is PROCESSING with the count and message of its first attempt
C25_Witness ==
    /\ worker = "stopped"
    /\ \E i \in Ids :
          /\ jobs[i].status = PROCESSING
          /\ jobs[i].started_at = Some(0)
          /\ jobs[i].updated_at = 1
          /\ jobs[i].attempts = 1
          /\ jobs[i].error_message # None
          /\ jobs[i].finished_at = None

\* C26: a call of process_next_job changes at most one job: its selection
\* changes only the job it takes, and nothing when no job is ready; from then
\* to its return the worker holds that job and only that job is changed;
\* every other stored job is as it was.
C26_OneJobPerIteration ==
    /\ [][SelectionStep =>
            /\ Len(jobs') = Len(jobs)
            /\ IF worker' = "sleeping"
               THEN jobs' = jobs
               ELSE /\ job' \in Ids
                    /\ \A i \in Ids \ {job'} : jobs'[i] = jobs[i]]_vars
    /\ [][worker = "executing" =>
            /\ job \in Ids
            /\ \A i \in Ids \ {job} : jobs'[i] = jobs[i]
            /\ worker' = "executing" => job' = job /\ jobs'[job] = jobs[job]]_vars

\* three calls have taken the second of two ready jobs, which orders first,
\* and the last has returned with it FAILED; the first job is as it was stored
C26_Witness ==
    /\ worker = "sleeping"
    /\ Len(jobs) = 2
    /\ jobs[2].priority < jobs[1].priority
    /\ jobs[2].status = FAILED
    /\ jobs[2].finished_at = Some(now)
    /\ jobs[1].scheduled_at = None
    /\ jobs[1].status = PENDING
    /\ jobs[1].attempts = 0
    /\ jobs[1].started_at = None
    /\ jobs[1].updated_at = jobs[1].created_at
    /\ jobs[1].error_message = None

\* C27: no step removes a job or changes a stored job's id, idempotency_key,
\* type, payload, priority, scheduled_at, max_attempts or created_at; a step
\* adds at most one job, with the next id, max_attempts 3, attempts 0 and
\* status PENDING; and the ids of the stored jobs are distinct.
C27_IdentityFrozen ==
    /\ [][/\ Len(jobs') \in {Len(jobs), Len(jobs) + 1}
          /\ \A i \in Ids :
                /\ jobs'[i].id = jobs[i].id
                /\ jobs'[i].idempotency_key = jobs[i].idempotency_key
                /\ jobs'[i].type = jobs[i].type
                /\ jobs'[i].payload = jobs[i].payload
                /\ jobs'[i].priority = jobs[i].priority
                /\ jobs'[i].scheduled_at = jobs[i].scheduled_at
                /\ jobs'[i].max_attempts = jobs[i].max_attempts
                /\ jobs'[i].created_at = jobs[i].created_at
          /\ \A i \in (1..Len(jobs')) \ Ids :
                /\ jobs'[i].id = i
                /\ jobs'[i].max_attempts = 3
                /\ jobs'[i].attempts = 0
                /\ jobs'[i].status = PENDING
                /\ jobs'[i].created_at = now]_vars
    /\ [](\A i, k \in Ids : jobs[i].id = jobs[k].id => i = k)

\* a job stored at instant 0 for instant 1 has been selected, interrupted,
\* recovered and executed to FAILED, and is the job that was stored; a second
\* job was stored after it
C27_Witness ==
    /\ Len(jobs) = 2
    /\ jobs[1].id = 1
    /\ jobs[1].type = "unknown_job_type"
    /\ jobs[1].scheduled_at = Some(1)
    /\ jobs[1].created_at = 0
    /\ jobs[1].max_attempts = 3
    /\ jobs[1].status = FAILED
    /\ jobs[2].id = 2
    /\ jobs[2].created_at = 1
    /\ jobs[2].status = COMPLETED

\* C28: with one worker, every job has 0 <= attempts <= max_attempts; a
\* FAILED job has attempts = max_attempts and a PENDING or PROCESSING job
\* attempts < max_attempts; no step lowers attempts, and only the end of an
\* execution of the job changes it, by one.
C28_AttemptsBounded ==
    /\ [](\A i \in Ids :
            /\ jobs[i].attempts \in 0..jobs[i].max_attempts
            /\ jobs[i].status = FAILED
                  => jobs[i].attempts = jobs[i].max_attempts
            /\ jobs[i].status \in {PENDING, PROCESSING}
                  => jobs[i].attempts < jobs[i].max_attempts)
    /\ [][\A i \in Ids :
            /\ jobs'[i].attempts \in {jobs[i].attempts, jobs[i].attempts + 1}
            /\ jobs'[i].attempts # jobs[i].attempts
                  => ExecutionStep /\ job = i]_vars

\* one job is FAILED with attempts = max_attempts while another is executed
\* for the third time, with attempts 2
C28_Witness ==
    \E i, k \in Ids :
        /\ jobs[i].status = FAILED
        /\ jobs[i].attempts = jobs[i].max_attempts
        /\ jobs[k].status = PROCESSING
        /\ jobs[k].attempts = 2

\* the error_message the last failed attempt of job j has left, when that
\* attempt failed with description str
LastFailure(j, str) ==
    IF j.status = FAILED
    THEN Some(str)
    ELSE Some("Attempt " \o ToString(j.attempts) \o " failed: " \o str)

\* the descriptions with which an execution of job j can fail
FailureDescriptions(j) ==
    {execute_job(j, random).str :
        random \in {r \in RandomDraws : execute_job(j, r).raised # ""}}

\* C29: a job has no error_message before its first failed attempt; after a
\* failed attempt it carries the description of that attempt, numbered with
\* the attempt unless the attempt made the job FAILED; an execution that
\* succeeds, a selection, a recovery and an interrupt leave it unchanged, so
\* a job COMPLETED after failed attempts carries the description of the last
\* of them and a job COMPLETED at its first attempt has none.
C29_ErrorMessageLastFailure ==
    /\ [](\A i \in Ids : jobs[i].attempts = 0 <=> jobs[i].error_message = None)
    /\ [][\A i \in Ids :
            IF ExecutionStep /\ job = i /\ jobs'[i].status # COMPLETED
            THEN \E str \in FailureDescriptions(jobs[i]) :
                    jobs'[i].error_message = LastFailure(jobs'[i], str)
            ELSE jobs'[i].error_message = jobs[i].error_message]_vars
    /\ [](\A i \in Ids :
            (jobs[i].status = COMPLETED /\ jobs[i].attempts >= 1) =>
               jobs[i].error_message
                  = Some("Attempt " \o ToString(jobs[i].attempts)
                         \o " failed: Email service temporarily unavailable"))

\* a job was COMPLETED at its third attempt and carries the description of
\* its second, beside a job COMPLETED at its first attempt with none
C29_Witness ==
    \E i, k \in Ids :
        /\ jobs[i].status = COMPLETED
        /\ jobs[i].error_message =
              Some("Attempt 2 failed: Email service temporarily unavailable")
        /\ jobs[k].status = COMPLETED
        /\ jobs[k].attempts = 0
        /\ jobs[k].error_message = None

=============================================================================
